---- MODULE Spec2Model ----
(***************************************************************************)
(* Model of caldav/match.go: the CalDAV calendar-query evaluator.          *)
(*                                                                         *)
(* The matchers are pure functions; each is an operator that follows the   *)
(* control flow of its Go function (loops become recursive operators with  *)
(* the same early returns).  A (bool, error) return value is the record    *)
(* [ok, err]; a nil pointer or nil error is Nil.  A time.Time is the       *)
(* integer count of its instant, the zero time.Time being 0; all times are *)
(* in one location.  A property value is a string, and the date/time of a  *)
(* property is obtained by parsing that string.                            *)
(*                                                                         *)
(* The state machine calls one function at a time on inputs drawn from     *)
(* bounded sets and records the arguments and the returned value; Filter   *)
(* is run one loop iteration at a time.                                    *)
(***************************************************************************)
EXTENDS Integers, Sequences, FiniteSets, TLC

\* Largest instant a filter boundary takes; property values go one further.
MaxTime == 3
\* Longest list of calendar objects handed to Filter.
MaxObjs == 3

Nil == [nil |-> TRUE]

\* var zeroDate time.Time
zeroDate == 0

\* ical.CompEvent
CompEvent == "VEVENT"
PropDateTimeStart == "DTSTART"
PropDateTimeEnd == "DTEND"

\* A (bool, error) pair as returned by the matchers.
R(ok, err) == [ok |-> ok, err |-> err]

\* The data-format error of a value that is no date/time.
ParseError(v) == [msg |-> "invalid date-time", value |-> v]

Times == 0..(MaxTime + 1)

\* ical.Prop.DateTime: the instant written in the property's value, or an
\* error when the value is not the text of an instant.
DateTime(field) ==
  IF \E t \in Times : ToString(t) = field.Value
  THEN [t |-> CHOOSE t \in Times : ToString(t) = field.Value, err |-> Nil]
  ELSE [t |-> zeroDate, err |-> ParseError(field.Value)]

\* ical.Props.Get: the first property of that name, or nil.
PropsGet(props, name) ==
  IF \E k \in 1..Len(props) : props[k].Name = name
  THEN props[CHOOSE k \in 1..Len(props) :
               /\ props[k].Name = name
               /\ \A j \in 1..(k - 1) : props[j].Name # name]
  ELSE Nil

\* ical.Params.Get: the first value of that parameter, "" when there is none.
ParamsGet(params, name) ==
  IF \E k \in 1..Len(params) : params[k].Name = name
  THEN params[CHOOSE k \in 1..Len(params) :
                /\ params[k].Name = name
                /\ \A j \in 1..(k - 1) : params[j].Name # name].Value
  ELSE ""

\* ical.Event.DateTimeStart: the zero time when the event has no DTSTART.
DateTimeStart(comp) ==
  LET prop == PropsGet(comp.Props, PropDateTimeStart)
  IN  IF prop = Nil THEN [t |-> zeroDate, err |-> Nil] ELSE DateTime(prop)

\* ical.Event.DateTimeEnd: DTEND when present, else the start of an event
\* that has a DTSTART with a time of day and no DURATION.
DateTimeEnd(comp) ==
  LET prop == PropsGet(comp.Props, PropDateTimeEnd)
  IN  IF prop = Nil THEN DateTimeStart(comp) ELSE DateTime(prop)

\* time.Time.After and time.Time.Before
After(t, u) == t > u
Before(t, u) == t < u

matchTextMatch(txt, value) ==
  LET match == (value = txt.Text)
  IN  IF txt.NegateCondition THEN ~match ELSE match

matchParamFilter(filter, field) ==
  LET value == ParamsGet(field.Params, filter.Name)
  IN  IF value = "" THEN filter.IsNotDefined
      ELSE IF filter.IsNotDefined THEN FALSE
      ELSE IF filter.TextMatch # Nil THEN matchTextMatch(filter.TextMatch, value)
      ELSE TRUE

\* The loop "for _, paramFilter := range filter.ParamFilter" of
\* matchPropFilter: TRUE iff no entry fails.
RECURSIVE paramFiltersMatch(_, _, _)
paramFiltersMatch(filters, k, field) ==
  IF k > Len(filters) THEN TRUE
  ELSE IF ~matchParamFilter(filters[k], field) THEN FALSE
  ELSE paramFiltersMatch(filters, k + 1, field)

matchPropTimeRange(start, end, field) ==
  LET ptime == DateTime(field)
  IN  IF ptime.err # Nil THEN R(FALSE, ptime.err)
      ELSE IF After(ptime.t, start) /\ Before(ptime.t, end) THEN R(TRUE, Nil)
      ELSE R(FALSE, Nil)

\* matchCompTimeRange without the "covers entire time range" test.
matchCompTimeRangeNoCover(start, end, comp) ==
  IF comp.Name # CompEvent THEN R(FALSE, Nil)
  ELSE LET eventStart == DateTimeStart(comp)
           eventEnd == DateTimeEnd(comp)
       IN  IF eventStart.err # Nil THEN R(FALSE, eventStart.err)
           ELSE IF eventEnd.err # Nil THEN R(FALSE, eventEnd.err)
           ELSE IF After(eventStart.t, start) /\ Before(eventStart.t, end)
                THEN R(TRUE, Nil)
           ELSE IF After(eventEnd.t, start) /\ Before(eventEnd.t, end)
                THEN R(TRUE, Nil)
           ELSE R(FALSE, Nil)

\* matchCompTimeRange with closed boundaries in the "covers" test.
matchCompTimeRangeClosed(start, end, comp) ==
  IF comp.Name # CompEvent THEN R(FALSE, Nil)
  ELSE LET eventStart == DateTimeStart(comp)
           eventEnd == DateTimeEnd(comp)
       IN  IF eventStart.err # Nil THEN R(FALSE, eventStart.err)
           ELSE IF eventEnd.err # Nil THEN R(FALSE, eventEnd.err)
           ELSE IF After(eventStart.t, start) /\ Before(eventStart.t, end)
                THEN R(TRUE, Nil)
           ELSE IF After(eventEnd.t, start) /\ Before(eventEnd.t, end)
                THEN R(TRUE, Nil)
           ELSE IF ~After(eventStart.t, start) /\ ~Before(eventEnd.t, end)
                THEN R(TRUE, Nil)
           ELSE R(FALSE, Nil)

matchCompTimeRange(start, end, comp) ==
  IF comp.Name # CompEvent THEN R(FALSE, Nil)
  ELSE LET eventStart == DateTimeStart(comp)
           eventEnd == DateTimeEnd(comp)
       IN  IF eventStart.err # Nil THEN R(FALSE, eventStart.err)
           ELSE IF eventEnd.err # Nil THEN R(FALSE, eventEnd.err)
           \* Event starts in time range
           ELSE IF After(eventStart.t, start) /\ Before(eventStart.t, end)
                THEN R(TRUE, Nil)
           \* Event ends in time range
           ELSE IF After(eventEnd.t, start) /\ Before(eventEnd.t, end)
                THEN R(TRUE, Nil)
           \* Event covers entire time range plus some
           ELSE IF Before(eventStart.t, start) /\ After(eventEnd.t, end)
                THEN R(TRUE, Nil)
           ELSE R(FALSE, Nil)

\* The idiom after every call of a matcher:
\*   if err != nil { return false, err }; if !match { return false, nil }
\* and, when neither returns, what follows.
Try(r, rest) ==
  IF r.err # Nil THEN R(FALSE, r.err)
  ELSE IF ~r.ok THEN R(FALSE, Nil)
  ELSE rest

\* The same idiom for a matcher that returns a bool only.
TryBool(match, rest) == IF ~match THEN R(FALSE, Nil) ELSE rest

\* matchPropFilter that also applies the TextMatch of a time-range filter.
matchPropFilterTextToo(filter, comp) ==
  LET field == PropsGet(comp.Props, filter.Name)
  IN  IF field = Nil THEN R(filter.IsNotDefined, Nil)
      ELSE IF filter.Start # zeroDate
      THEN Try(matchPropTimeRange(filter.Start, filter.End, field),
               TryBool(filter.TextMatch = Nil
                         \/ matchTextMatch(filter.TextMatch, field.Value),
                       TryBool(paramFiltersMatch(filter.ParamFilter, 1, field),
                               R(TRUE, Nil))))
      ELSE IF filter.TextMatch # Nil
      THEN TryBool(matchTextMatch(filter.TextMatch, field.Value),
                   TryBool(paramFiltersMatch(filter.ParamFilter, 1, field),
                           R(TRUE, Nil)))
      ELSE R(TRUE, Nil)

matchPropFilter(filter, comp) ==
  LET field == PropsGet(comp.Props, filter.Name)
  IN  IF field = Nil THEN R(filter.IsNotDefined, Nil)
      ELSE IF filter.Start # zeroDate
      THEN Try(matchPropTimeRange(filter.Start, filter.End, field),
               TryBool(paramFiltersMatch(filter.ParamFilter, 1, field),
                       \* falls out of the if to "return true, nil"
                       R(TRUE, Nil)))
      ELSE IF filter.TextMatch # Nil
      THEN TryBool(matchTextMatch(filter.TextMatch, field.Value),
                   TryBool(paramFiltersMatch(filter.ParamFilter, 1, field),
                           R(TRUE, Nil)))
      \* empty prop-filter, property exists
      ELSE R(TRUE, Nil)

\* The loop "for _, propFilter := range ...Props" of Match and of
\* matchCompFilterChild, from its k-th entry on.
RECURSIVE propFiltersMatch(_, _, _)
propFiltersMatch(filters, k, comp) ==
  IF k > Len(filters) THEN R(TRUE, Nil)
  ELSE Try(matchPropFilter(filters[k], comp),
           propFiltersMatch(filters, k + 1, comp))

RECURSIVE matchCompFilter(_, _)
RECURSIVE matchCompFilterChild(_, _)
RECURSIVE compFiltersMatch(_, _, _)
RECURSIVE scanChildren(_, _, _, _)

\* The loop "for _, compFilter := range ...Comps" of Match and of
\* matchCompFilterChild, from its k-th entry on.
compFiltersMatch(filters, k, comp) ==
  IF k > Len(filters) THEN R(TRUE, Nil)
  ELSE Try(matchCompFilter(filters[k], comp),
           compFiltersMatch(filters, k + 1, comp))

\* The loop body that returns as soon as a child matches.
scanChildFirstMatch(r, filter, comp, k, matches) ==
  IF r.err # Nil THEN R(FALSE, r.err)
  ELSE IF r.ok THEN R(TRUE, Nil)
  ELSE scanChildren(filter, comp, k + 1, matches)

\* The body of matchCompFilter's loop for the k-th child, r being what
\* matchCompFilterChild returned for it.
scanChild(r, filter, comp, k, matches) ==
  IF r.err # Nil THEN R(FALSE, r.err)
  ELSE IF r.ok
  THEN scanChildren(filter, comp, k + 1, Append(matches, comp.Children[k]))
  ELSE scanChildren(filter, comp, k + 1, matches)

\* matchCompFilter from the k-th child on, matches being the children
\* collected so far.
scanChildren(filter, comp, k, matches) ==
  IF k > Len(comp.Children)
  THEN IF Len(matches) = 0 THEN R(filter.IsNotDefined, Nil) ELSE R(TRUE, Nil)
  ELSE scanChild(matchCompFilterChild(filter, comp.Children[k]),
                 filter, comp, k, matches)

matchCompFilter(filter, comp) == scanChildren(filter, comp, 1, <<>>)

\* matchCompFilterChild that takes a filter with only End set as a range.
matchCompFilterChildEndToo(filter, comp) ==
  IF comp.Name # filter.Name THEN R(FALSE, Nil)
  ELSE Try(IF filter.Start # zeroDate \/ filter.End # zeroDate
           THEN matchCompTimeRange(filter.Start, filter.End, comp)
           ELSE R(TRUE, Nil),
           Try(compFiltersMatch(filter.Comps, 1, comp),
               propFiltersMatch(filter.Props, 1, comp)))

matchCompFilterChild(filter, comp) ==
  IF comp.Name # filter.Name THEN R(FALSE, Nil)
  ELSE Try(IF filter.Start # zeroDate
           THEN matchCompTimeRange(filter.Start, filter.End, comp)
           ELSE R(TRUE, Nil),
           Try(compFiltersMatch(filter.Comps, 1, comp),
               propFiltersMatch(filter.Props, 1, comp)))

\* Match without the comparison of the root component's name.
MatchNoNameCheck(query, co) ==
  IF co.Data = Nil THEN R(FALSE, Nil)
  ELSE IF co.Data.Component = Nil THEN R(FALSE, Nil)
  ELSE Try(compFiltersMatch(query.Comps, 1, co.Data.Component),
           propFiltersMatch(query.Props, 1, co.Data.Component))

Match(query, co) ==
  IF co.Data = Nil THEN R(FALSE, Nil)
  ELSE IF co.Data.Component = Nil THEN R(FALSE, Nil)
  ELSE LET comp == co.Data.Component
       IN  IF query.Name # comp.Name THEN R(query.IsNotDefined, Nil)
           ELSE Try(compFiltersMatch(query.Comps, 1, comp),
                    propFiltersMatch(query.Props, 1, comp))

(***************************************************************************)
(* The inputs.                                                             *)
(***************************************************************************)
Param(n, v) == [Name |-> n, Value |-> v]
Prop(n, v, p) == [Name |-> n, Value |-> v, Params |-> p]
Component(n, p, c) == [Name |-> n, Props |-> p, Children |-> c]
TextMatch(t, neg) == [Text |-> t, NegateCondition |-> neg]
ParamFilter(n, ind, tm) == [Name |-> n, IsNotDefined |-> ind, TextMatch |-> tm]
PropFilter(n, ind, s, e, tm, pf) ==
  [Name |-> n, IsNotDefined |-> ind, Start |-> s, End |-> e,
   TextMatch |-> tm, ParamFilter |-> pf]
CompFilter(n, ind, s, e, cs, ps) ==
  [Name |-> n, IsNotDefined |-> ind, Start |-> s, End |-> e,
   Comps |-> cs, Props |-> ps]
CalendarObject(d) == [Data |-> d]
Calendar(c) == [Component |-> c]
CalendarQuery(cf) == [CompFilter |-> cf]

\* The empty list and the lists of one element of S.
UpToOne(S) == {<<>>} \cup {<<x>> : x \in S}

ParamsSet ==
  { <<>>,
    <<Param("ROLE", "CHAIR")>>,
    <<Param("ROLE", "")>>,
    <<Param("CN", "x"), Param("ROLE", "OPT"), Param("ROLE", "CHAIR")>> }

ParamFilterSet ==
  { ParamFilter("ROLE", ind, tm) :
      ind \in BOOLEAN,
      tm \in {Nil, TextMatch("CHAIR", FALSE), TextMatch("CHAIR", TRUE)} }

ParamFilterLists ==
  UpToOne(ParamFilterSet)
    \cup {<<ParamFilter("CN", FALSE, Nil), q>> : q \in ParamFilterSet}

\* Inputs of matchPropFilter.
PropValues == {ToString(t) : t \in 1..MaxTime} \cup {"abc"}

PropSet ==
  { Prop(n, v, p) : n \in {"DTSTART", "UID"}, v \in PropValues, p \in ParamsSet }

PropLists ==
  UpToOne(PropSet)
    \cup { <<p, q>> : p \in {Prop("DTSTART", "2", <<>>), Prop("UID", "abc", <<>>)},
                      q \in PropSet }

PropFilterSet ==
  { PropFilter(n, ind, s, e, tm, pf) :
      n \in {"DTSTART", "UID"}, ind \in BOOLEAN,
      s \in 0..MaxTime, e \in 0..MaxTime,
      tm \in {Nil, TextMatch("2", FALSE), TextMatch("2", TRUE)},
      pf \in ParamFilterLists }

PropComps == { Component(CompEvent, ps, <<>>) : ps \in PropLists }

\* Inputs of matchCompTimeRange.
TimeValues == {ToString(t) : t \in Times} \cup {"abc"}

TimeProps(name) == UpToOne({Prop(name, v, <<>>) : v \in TimeValues})

TimeComps ==
  { Component(n, ps \o pe, <<>>) :
      n \in {CompEvent, "VTODO"},
      ps \in TimeProps(PropDateTimeStart), pe \in TimeProps(PropDateTimeEnd) }

\* Inputs of matchCompFilterChild, matchCompFilter and Match.
AlarmFilters ==
  { CompFilter("VALARM", ind, zeroDate, zeroDate, <<>>, <<>>) : ind \in BOOLEAN }

NestedPropFilters ==
  { PropFilter("UID", FALSE, zeroDate, zeroDate, TextMatch("abc123", FALSE), <<>>),
    PropFilter("DTSTART", FALSE, 1, MaxTime, Nil, <<>>),
    PropFilter("DTSTART", FALSE, zeroDate, MaxTime, Nil, <<>>),
    PropFilter("X-NONE", TRUE, zeroDate, zeroDate, Nil, <<>>) }

EventFilters ==
  { CompFilter(n, ind, s, e, cs, ps) :
      n \in {CompEvent, "VTODO"}, ind \in BOOLEAN,
      s \in {zeroDate, 1, MaxTime - 1}, e \in {zeroDate, MaxTime},
      cs \in UpToOne(AlarmFilters), ps \in UpToOne(NestedPropFilters) }

Alarm == Component("VALARM", <<Prop("ACTION", "DISPLAY", <<>>)>>, <<>>)

AlarmLists ==
  { <<>>, <<Alarm>>, <<Component("VALARM", <<>>, <<Alarm>>), Alarm>> }

Events ==
  { Component(n, <<Prop("UID", u, <<>>), Prop(PropDateTimeStart, v, <<>>)>> \o pe, as) :
      n \in {CompEvent, "VTODO"},
      u \in {"abc123", "xyz999"},
      v \in {"1", "2", ToString(MaxTime), "abc", "xyz"},
      pe \in UpToOne({Prop(PropDateTimeEnd, ToString(MaxTime + 1), <<>>)}),
      as \in AlarmLists }

\* The children a VCALENDAR is given.
SomeEvents ==
  { Component(n, <<Prop("UID", u, <<>>), Prop(PropDateTimeStart, v, <<>>)>>, as) :
      n \in {CompEvent},
      u \in {"abc123"},
      v \in {"2", ToString(MaxTime), "abc", "xyz"},
      as \in {<<>>, <<Alarm>>} }
    \cup { Component("VTODO", <<Prop("UID", "xyz999", <<>>)>>, <<>>) }

Calendars ==
  { Component("VCALENDAR", <<Prop("VERSION", "2.0", <<>>)>>, cs) :
      cs \in UpToOne(SomeEvents) \cup {<<c, d>> : c \in SomeEvents, d \in SomeEvents} }

SomeEventFilters ==
  { f \in EventFilters : f.Name = CompEvent /\ f.Start # MaxTime - 1 /\ f.End = MaxTime }

Queries ==
  { CompFilter(n, ind, zeroDate, zeroDate, cs, ps) :
      n \in {"VCALENDAR", CompEvent}, ind \in BOOLEAN,
      cs \in UpToOne(SomeEventFilters),
      ps \in UpToOne(NestedPropFilters) }

Objects ==
  { CalendarObject(Nil), CalendarObject(Calendar(Nil)) }
    \cup { CalendarObject(Calendar(c)) : c \in Calendars \cup SomeEvents }


\* The queries and the objects Filter is given.
FilterQueries ==
  { Nil }
    \cup { CalendarQuery(q) :
             q \in { r \in Queries :
                       /\ r.Props = <<>>
                       /\ r.Name = "VCALENDAR" => ~r.IsNotDefined /\ r.Comps # <<>>
                       /\ r.Name = CompEvent => r.IsNotDefined /\ r.Comps = <<>>
                       /\ \A k \in 1..Len(r.Comps) :
                            /\ ~r.Comps[k].IsNotDefined
                            /\ r.Comps[k].Comps = <<>>
                            /\ r.Comps[k].Props = <<>> } }

FilterObjects ==
  { CalendarObject(Nil) }
    \cup { CalendarObject(Calendar(c)) :
             c \in { d \in Calendars :
                       /\ Len(d.Children) = 1
                       /\ d.Children[1].Children = <<>> } }

RECURSIVE SeqsUpTo(_, _)
SeqsUpTo(S, n) ==
  IF n = 0 THEN {<<>>}
  ELSE LET shorter == SeqsUpTo(S, n - 1)
       IN  shorter \cup {Append(s, x) : s \in shorter, x \in S}

(***************************************************************************)
(* The state: the function being run (pc), its arguments (args), the value *)
(* it returned (ret), and the locals of Filter's loop: the list out and    *)
(* the position i in cos.                                                  *)
(***************************************************************************)
VARIABLES pc, args, ret, out, i

vars == <<pc, args, ret, out, i>>

Init ==
  /\ pc = "idle"
  /\ args = Nil
  /\ ret = Nil
  /\ out = <<>>
  /\ i = 0

\* Filter up to the loop: a nil query returns the list as it is.
FilterBegin ==
  /\ pc = "idle"
  /\ \E query \in FilterQueries, cos \in SeqsUpTo(FilterObjects, MaxObjs) :
       /\ args' = [query |-> query, cos |-> cos]
       /\ IF query = Nil
          THEN /\ pc' = "FilterDone"
               /\ ret' = [objs |-> cos, err |-> Nil]
               /\ UNCHANGED <<out, i>>
          ELSE /\ pc' = "Filter"
               /\ out' = <<>>
               /\ i' = 1
               /\ UNCHANGED ret

\* The loop body that returns what was kept so far together with the error.
filterObjectPartial(co, m) ==
  IF m.err # Nil
  THEN /\ pc' = "FilterDone"
       /\ ret' = [objs |-> out, err |-> m.err]
       /\ UNCHANGED <<args, out, i>>
  ELSE IF ~m.ok
  THEN /\ i' = i + 1
       /\ UNCHANGED <<pc, args, ret, out>>
  ELSE /\ out' = Append(out, co)
       /\ i' = i + 1
       /\ UNCHANGED <<pc, args, ret>>

\* The loop body that keeps the objects that do not match.
filterObjectInverted(co, m) ==
  IF m.err # Nil
  THEN /\ pc' = "FilterDone"
       /\ ret' = [objs |-> <<>>, err |-> m.err]
       /\ UNCHANGED <<args, out, i>>
  ELSE IF m.ok
  THEN /\ i' = i + 1
       /\ UNCHANGED <<pc, args, ret, out>>
  ELSE /\ out' = Append(out, co)
       /\ i' = i + 1
       /\ UNCHANGED <<pc, args, ret>>

\* The body of "for _, co := range cos" for the object co, m being what
\* Match returned for it.
filterObject(co, m) ==
  IF m.err # Nil
  THEN \* return nil, err
       /\ pc' = "FilterDone"
       /\ ret' = [objs |-> <<>>, err |-> m.err]
       /\ UNCHANGED <<args, out, i>>
  ELSE IF ~m.ok
  THEN \* continue
       /\ i' = i + 1
       /\ UNCHANGED <<pc, args, ret, out>>
  ELSE /\ out' = Append(out, co)
       /\ i' = i + 1
       /\ UNCHANGED <<pc, args, ret>>

\* One iteration of "for _, co := range cos".
FilterStep ==
  /\ pc = "Filter"
  /\ i <= Len(args.cos)
  /\ filterObject(args.cos[i], Match(args.query.CompFilter, args.cos[i]))

\* The loop is over: return out, nil.
FilterReturn ==
  /\ pc = "Filter"
  /\ i > Len(args.cos)
  /\ pc' = "FilterDone"
  /\ ret' = [objs |-> out, err |-> Nil]
  /\ UNCHANGED <<args, out, i>>

CallMatch ==
  /\ pc = "idle"
  /\ \E query \in Queries, co \in Objects :
       /\ args' = [query |-> query, co |-> co]
       /\ ret' = Match(query, co)
  /\ pc' = "Match"
  /\ UNCHANGED <<out, i>>

CallMatchCompFilter ==
  /\ pc = "idle"
  /\ \E filter \in EventFilters, comp \in Calendars :
       /\ args' = [filter |-> filter, comp |-> comp]
       /\ ret' = matchCompFilter(filter, comp)
  /\ pc' = "matchCompFilter"
  /\ UNCHANGED <<out, i>>

CallMatchCompFilterChild ==
  /\ pc = "idle"
  /\ \E filter \in EventFilters, comp \in Events :
       /\ args' = [filter |-> filter, comp |-> comp]
       /\ ret' = matchCompFilterChild(filter, comp)
  /\ pc' = "matchCompFilterChild"
  /\ UNCHANGED <<out, i>>

CallMatchPropFilter ==
  /\ pc = "idle"
  /\ \E filter \in PropFilterSet, comp \in PropComps :
       /\ args' = [filter |-> filter, comp |-> comp]
       /\ ret' = matchPropFilter(filter, comp)
  /\ pc' = "matchPropFilter"
  /\ UNCHANGED <<out, i>>

CallMatchCompTimeRange ==
  /\ pc = "idle"
  /\ \E start \in 0..MaxTime, end \in 0..MaxTime, comp \in TimeComps :
       /\ args' = [start |-> start, end |-> end, comp |-> comp]
       /\ ret' = matchCompTimeRange(start, end, comp)
  /\ pc' = "matchCompTimeRange"
  /\ UNCHANGED <<out, i>>

\* The call is over; nothing is kept from one call to the next.
Return ==
  /\ pc \notin {"idle", "Filter"}
  /\ pc' = "idle"
  /\ args' = Nil
  /\ ret' = Nil
  /\ out' = <<>>
  /\ i' = 0

Next ==
  \/ FilterBegin
  \/ FilterStep
  \/ FilterReturn
  \/ CallMatch
  \/ CallMatchCompFilter
  \/ CallMatchCompFilterChild
  \/ CallMatchPropFilter
  \/ CallMatchCompTimeRange
  \/ Return

Spec == Init /\ [][Next]_vars


(***************************************************************************)
(* Properties.                                                             *)
(***************************************************************************)
FilterRan == pc = "FilterDone" /\ args.query # Nil

MatchOf(k) == Match(args.query.CompFilter, args.cos[k])

Matching(co) == Match(args.query.CompFilter, co).ok

NoMatchFails == \A k \in 1..Len(args.cos) : MatchOf(k).err = Nil

FirstFailing ==
  CHOOSE k \in 1..Len(args.cos) :
    /\ MatchOf(k).err # Nil
    /\ \A j \in 1..(k - 1) : MatchOf(j).err = Nil

\* C1: when the query is not nil and Match fails on no object of the list,
\* Filter returns, without error, exactly the objects that Match accepts, each
\* once and in the order of the input.
C1_FilterKeepsMatching ==
  (FilterRan /\ NoMatchFails)
    => /\ ret.err = Nil
       /\ ret.objs = SelectSeq(args.cos, Matching)

C1_Witness ==
  /\ FilterRan
  /\ NoMatchFails
  /\ \E a, b, c \in 1..Len(args.cos) :
       /\ a < b /\ b < c
       /\ MatchOf(a).ok /\ ~MatchOf(b).ok /\ MatchOf(c).ok
       /\ args.cos[a] # args.cos[c]
  /\ Len(ret.objs) = 2

\* C2: when the query is not nil and Match fails on some object, Filter
\* returns the error of the first failing object and no objects, and it
\* stopped at that object: no later object was evaluated.
C2_FilterFailsFast ==
  (FilterRan /\ ~NoMatchFails)
    => /\ ret.err = MatchOf(FirstFailing).err
       /\ ret.objs = <<>>
       /\ i = FirstFailing

C2_Witness ==
  /\ FilterRan
  /\ ret.err # Nil
  /\ out # <<>>
  /\ ret.objs = <<>>
  /\ i < Len(args.cos)
  /\ MatchOf(Len(args.cos)).err # Nil
  /\ MatchOf(Len(args.cos)).err # ret.err

\* C3 (as claimed): a PropFilter with IsNotDefined set matches iff the
\* component has no property of the filter's name.
C3_IsNotDefinedPropFilter ==
  (pc = "matchPropFilter" /\ args.filter.IsNotDefined)
    => ret.ok = (PropsGet(args.comp.Props, args.filter.Name) = Nil)

HasChildNamed(comp, name) ==
  \E k \in 1..Len(comp.Children) : comp.Children[k].Name = name

\* C4 (as claimed): the filter Comps: [{Name: "VALARM", IsNotDefined: true}]
\* matches a VEVENT iff the VEVENT has no VALARM child.
C4_NoAlarmFilter ==
  ( /\ pc = "matchCompFilterChild"
    /\ args.comp.Name = CompEvent
    /\ args.filter.Name = CompEvent
    /\ args.filter.Start = zeroDate
    /\ args.filter.Props = <<>>
    /\ args.filter.Comps
         = <<CompFilter("VALARM", TRUE, zeroDate, zeroDate, <<>>, <<>>)>> )
    => ret = R(~HasChildNamed(args.comp, "VALARM"), Nil)

RootOf(co) == co.Data.Component

HasRoot(co) == co.Data # Nil /\ co.Data.Component # Nil

NameDiffers ==
  /\ pc = "Match"
  /\ HasRoot(args.co)
  /\ args.query.Name # RootOf(args.co).Name

\* C5: when the root component's name differs from query.Name, Match returns
\* (query.IsNotDefined, nil) whatever nested filters the query has.
C5_RootNameDiffers ==
  NameDiffers => ret = R(args.query.IsNotDefined, Nil)

C5_Witness ==
  /\ NameDiffers
  /\ args.query.IsNotDefined
  /\ args.query.Props # <<>>
  /\ matchPropFilter(args.query.Props[1], RootOf(args.co)).err # Nil
  /\ ret = R(TRUE, Nil)

EventTimed ==
  /\ pc = "matchCompTimeRange"
  /\ args.comp.Name = CompEvent
  /\ DateTimeStart(args.comp).err = Nil
  /\ DateTimeEnd(args.comp).err = Nil

eventStart == DateTimeStart(args.comp).t

eventEnd == DateTimeEnd(args.comp).t

\* C6: for an event whose start and end are derived without error,
\* matchCompTimeRange is true iff start < eventStart < end, or
\* start < eventEnd < end, or eventStart < start and eventEnd > end.
C6_TimeRangeOverlap ==
  EventTimed
    => /\ ret.err = Nil
       /\ ret.ok = ( \/ args.start < eventStart /\ eventStart < args.end
                     \/ args.start < eventEnd /\ eventEnd < args.end
                     \/ eventStart < args.start /\ eventEnd > args.end )

C6_Witness ==
  /\ EventTimed
  /\ args.start # zeroDate
  /\ args.start < args.end
  /\ eventStart # zeroDate
  /\ eventStart < args.start
  /\ eventEnd > args.end
  /\ ret = R(TRUE, Nil)

\* C10: matchCompTimeRange is false, without error, for an event that starts
\* at the range's start and ends at or after the range's end, and for an event
\* that starts at or before the range's start and ends at the range's end.
C10_ExactRangeNotMatched ==
  ( /\ EventTimed
    /\ \/ eventStart = args.start /\ eventEnd >= args.end
       \/ eventStart <= args.start /\ eventEnd = args.end )
    => ret = R(FALSE, Nil)

C10_Witness ==
  /\ EventTimed
  /\ args.start # zeroDate
  /\ args.start < args.end
  /\ eventStart = args.start
  /\ eventEnd = args.end
  /\ ret = R(FALSE, Nil)


ChildResult(k) == matchCompFilterChild(args.filter, args.comp.Children[k])

\* The root's first child is named as the query's only component filter f.
FirstChildNamed(f) ==
  /\ pc = "Match"
  /\ HasRoot(args.co)
  /\ args.query.Name = RootOf(args.co).Name
  /\ args.query.Comps = <<f>>
  /\ RootOf(args.co).Children # <<>>
  /\ RootOf(args.co).Children[1].Name = f.Name

\* C7: a data-format error is returned unchanged with matched = false by
\* every matcher between the place that raised it and Match: matchCompTimeRange
\* and matchPropFilter return the error of the value they could not read,
\* matchCompFilterChild returns the error of its time range, matchCompFilter
\* returns the error of its first failing child even when an earlier child
\* matched, and Match returns the error raised two levels below it.
C7_ErrorsPropagate ==
  /\ (pc \in {"Match", "matchCompFilter", "matchCompFilterChild",
              "matchPropFilter", "matchCompTimeRange"} /\ ret.err # Nil)
       => ~ret.ok
  /\ (pc = "matchCompTimeRange" /\ args.comp.Name = CompEvent)
       => /\ DateTimeStart(args.comp).err # Nil
               => ret = R(FALSE, DateTimeStart(args.comp).err)
          /\ (DateTimeStart(args.comp).err = Nil /\ DateTimeEnd(args.comp).err # Nil)
               => ret = R(FALSE, DateTimeEnd(args.comp).err)
  /\ (pc = "matchPropFilter" /\ args.filter.Start # zeroDate)
       => LET field == PropsGet(args.comp.Props, args.filter.Name)
          IN  (field # Nil /\ DateTime(field).err # Nil)
                => ret = R(FALSE, ParseError(field.Value))
  /\ (pc = "matchCompFilterChild" /\ args.comp.Name = args.filter.Name
        /\ args.filter.Start # zeroDate)
       => LET tr == matchCompTimeRange(args.filter.Start, args.filter.End, args.comp)
          IN  tr.err # Nil => ret = R(FALSE, tr.err)
  /\ pc = "matchCompFilter"
       => \A k \in 1..Len(args.comp.Children) :
            ( /\ ChildResult(k).err # Nil
              /\ \A j \in 1..(k - 1) : ChildResult(j).err = Nil )
              => ret = R(FALSE, ChildResult(k).err)
  /\ pc = "Match"
       => \A f \in SomeEventFilters :
            FirstChildNamed(f)
              => LET child == RootOf(args.co).Children[1]
                 IN  /\ (f.Start # zeroDate /\ f.Name = CompEvent
                           /\ DateTimeStart(child).err # Nil)
                          => ret = R(FALSE, DateTimeStart(child).err)
                     /\ (f.Start = zeroDate /\ f.Comps = <<>> /\ f.Props # <<>>
                           /\ f.Props[1].Start # zeroDate)
                          => LET field == PropsGet(child.Props, f.Props[1].Name)
                             IN  (field # Nil /\ DateTime(field).err # Nil)
                                   => ret = R(FALSE, ParseError(field.Value))

C7_Witness ==
  /\ pc = "matchCompFilter"
  /\ Len(args.comp.Children) > 1
  /\ ChildResult(1) = R(TRUE, Nil)
  /\ ChildResult(2).err # Nil
  /\ ret = R(FALSE, ChildResult(2).err)

\* The property the filter names, in the component matchPropFilter is given.
namedField == PropsGet(args.comp.Props, args.filter.Name)

TimeRangeAndText ==
  /\ pc = "matchPropFilter"
  /\ args.filter.Start # zeroDate
  /\ args.filter.TextMatch # Nil
  /\ namedField # Nil

\* C8: for a PropFilter with a non-zero time range and a TextMatch, on a
\* component that has the property, matchPropFilter is true iff the property's
\* date/time lies strictly inside (Start, End) and every ParamFilter matches
\* the property; the TextMatch plays no part.
C8_TimeRangeOverridesText ==
  TimeRangeAndText
    => ret.ok = ( /\ DateTime(namedField).err = Nil
                  /\ args.filter.Start < DateTime(namedField).t
                  /\ DateTime(namedField).t < args.filter.End
                  /\ \A k \in 1..Len(args.filter.ParamFilter) :
                       matchParamFilter(args.filter.ParamFilter[k], namedField) )

C8_Witness ==
  /\ TimeRangeAndText
  /\ ~matchTextMatch(args.filter.TextMatch, namedField.Value)
  /\ args.filter.ParamFilter # <<>>
  /\ ret = R(TRUE, Nil)

WithoutEnd(filter) == [filter EXCEPT !.End = zeroDate]

\* C9: a filter applies its time range iff its Start is not the zero time.
\* With Start zero the filter gives the result it gives with End zero as
\* well, a PropFilter returns no error, and a CompFilter without nested
\* filters accepts every component of its name; with Start not zero a
\* candidate the temporal evaluator rejects, or fails on, is not accepted.
C9_ZeroStartMeansNoRange ==
  /\ (pc = "matchPropFilter" /\ args.filter.Start = zeroDate)
       => /\ ret.err = Nil
          /\ ret = matchPropFilter(WithoutEnd(args.filter), args.comp)
  /\ (pc = "matchPropFilter" /\ args.filter.Start # zeroDate /\ namedField # Nil)
       => LET tr == matchPropTimeRange(args.filter.Start, args.filter.End, namedField)
          IN  ~tr.ok => ret = R(FALSE, tr.err)
  /\ (pc = "matchCompFilterChild" /\ args.filter.Start = zeroDate)
       => /\ ret = matchCompFilterChild(WithoutEnd(args.filter), args.comp)
          /\ (args.filter.Comps = <<>> /\ args.filter.Props = <<>>)
               => ret = R(args.comp.Name = args.filter.Name, Nil)
  /\ (pc = "matchCompFilterChild" /\ args.filter.Start # zeroDate
        /\ args.comp.Name = args.filter.Name)
       => LET tr == matchCompTimeRange(args.filter.Start, args.filter.End, args.comp)
          IN  ~tr.ok => ret = R(FALSE, tr.err)

C9_Witness ==
  /\ pc = "matchCompFilterChild"
  /\ args.filter.Start = zeroDate
  /\ args.filter.End # zeroDate
  /\ args.comp.Name = args.filter.Name
  /\ matchCompTimeRange(args.filter.Start, args.filter.End, args.comp).err # Nil
  /\ ret = R(TRUE, Nil)

====
